---- MODULE Spec2Model ----
(***************************************************************************)
(* A model of cudf::detail::cross_join (cpp/src/join/cross_join.cu).       *)
(*                                                                         *)
(* A table is a sequence of columns.  A column is a record                 *)
(*   [type, data, buf, mr]                                                 *)
(* where data is the sequence of its cells, buf names the device buffer    *)
(* that backs it and mr is the memory resource the buffer came from.  A    *)
(* cell is a triple <<origin, column, row>>, so every cell of the two      *)
(* inputs is distinct and the result shows where each of its cells came    *)
(* from (cross_join never inspects a cell's value).                        *)
(*                                                                         *)
(* The call is modelled statement by statement: pc is the statement about  *)
(* to run, locals the function's local variables (each an owner of         *)
(* columns), live the set of device buffers currently allocated, calls the *)
(* primitives invoked so far with the stream and resource each one uses.   *)
(***************************************************************************)
EXTENDS Integers, Sequences, FiniteSets, TLC

VARIABLES left, right, mr, stream, pc, locals, live, calls, result, err,
          tbl, nest

vars == <<left, right, mr, stream, pc, locals, live, calls, result, err,
          tbl, nest>>

callVars == <<left, right, mr, stream, pc, locals, live, calls, result, err>>

(***************************************************************************)
(* Bounds of the model.                                                    *)
(***************************************************************************)
MaxRows == 2
MaxCols == 2
NestMaxRows == 2
NestMaxCols == 1

Types == {"INT32", "STRING"}

(***************************************************************************)
(* The defaults of the signature: stream = 0 and                           *)
(* mr = rmm::mr::get_default_resource().                                   *)
(***************************************************************************)
DefaultStream == 0
DefaultResource == "default_resource"

Streams == {DefaultStream, 1}
Resources == {DefaultResource, "pool_resource"}

(***************************************************************************)
(* table_view accessors.  A view with no columns has no rows.              *)
(***************************************************************************)
num_columns(t) == Len(t)
num_rows(t) == IF Len(t) = 0 THEN 0 ELSE Len(t[1].data)

(* The slot of a std::vector<std::unique_ptr<column>> whose column has     *)
(* been moved out: a null unique_ptr.                                      *)
NullColumn == [type |-> "null", data |-> <<>>, buf |-> <<"null", 0>>, mr |-> "none"]

(* The buffers a holder (a table or a vector of column pointers) owns.     *)
Owned(holder) ==
  {holder[i].buf : i \in {j \in DOMAIN holder : holder[j] # NullColumn}}

(***************************************************************************)
(* The input tables: origin names the table, m its row count, types its    *)
(* schema.  The buffers of the inputs belong to the caller.                *)
(***************************************************************************)
MakeTable(origin, m, types) ==
  [c \in 1..Len(types) |->
     [type |-> types[c],
      data |-> [r \in 1..m |-> <<origin, c, r>>],
      buf  |-> <<origin, c>>,
      mr   |-> "caller"]]

Schemas(lo, hi) == UNION {[1..p -> Types] : p \in lo..hi}

Tables(origin, minCols, maxCols, maxRows) ==
  {MakeTable(origin, IF Len(s) = 0 THEN 0 ELSE m, s) :
     s \in Schemas(minCols, maxCols), m \in 0..maxRows}

(***************************************************************************)
(* The primitives cross_join composes.  Their code is outside this file;   *)
(* they are modelled from their contracts.  local names the variable the   *)
(* result is bound to and so the buffers it allocates.                     *)
(***************************************************************************)
\* repeat: output row k is input row k / count.
repeat(input, count, rsrc, local) ==
  [c \in 1..Len(input) |->
     [type |-> input[c].type,
      data |-> [k \in 1..(num_rows(input) * count) |->
                  input[c].data[((k - 1) \div count) + 1]],
      buf  |-> <<local, c>>,
      mr   |-> rsrc]]

\* tile: count whole copies of the input, in the original order.
tile(input, count, rsrc, local) ==
  [c \in 1..Len(input) |->
     [type |-> input[c].type,
      data |-> [k \in 1..(num_rows(input) * count) |->
                  input[c].data[((k - 1) % num_rows(input)) + 1]],
      buf  |-> <<local, c>>,
      mr   |-> rsrc]]

\* empty_like: the same schema, no rows.  It takes no resource.
empty_like(input, local) ==
  [c \in 1..Len(input) |->
     [type |-> input[c].type,
      data |-> <<>>,
      buf  |-> <<local, c>>,
      mr   |-> DefaultResource]]

(***************************************************************************)
(* The pieces of cross_join.  Each one is followed by the definition the   *)
(* model uses; the definition before it is a faulty variant used to show   *)
(* that the properties below depend on it.                                 *)
(***************************************************************************)
\* CUDF_EXPECTS(0 != left.num_columns()); CUDF_EXPECTS(0 != right.num_columns())
columns_expected_left_only(l, r) == 0 # num_columns(l)
columns_expected(l, r) == 0 # num_columns(l) /\ 0 # num_columns(r)

\* if ((0 == left.num_rows()) || (0 == right.num_rows()))
either_empty_both(l, r) == (0 = num_rows(l)) /\ (0 = num_rows(r))
either_empty(l, r) == (0 = num_rows(l)) \/ (0 = num_rows(r))

\* numeric_scalar<size_type> num_repeats{right.num_rows()}
repeat_count_left(l, r) == num_rows(l)
repeat_count(l, r) == num_rows(r)

\* cudf::tile(right, left.num_rows(), mr)
tile_count_right(l, r) == num_rows(r)
tile_count(l, r) == num_rows(l)

\* the resource and the stream each primitive is called with
repeat_mr(m) == m
repeat_stream(s) == s
tile_mr_default(m) == DefaultResource
tile_mr(m) == m
tile_stream(s) == DefaultStream
empty_like_mr(m) == DefaultResource
empty_like_stream(s) == DefaultStream

\* std::move(first, last, std::back_inserter(dst)): dst gets the columns
\* appended in order, and every slot of src is left null.
concat_columns_reversed(dst, src) == src \o dst
concat_columns(dst, src) == dst \o src

move_back_inserter_copy(dst, src) ==
  [dst |-> concat_columns(dst, src), src |-> src]
move_back_inserter(dst, src) ==
  [dst |-> concat_columns(dst, src), src |-> [i \in DOMAIN src |-> NullColumn]]

(***************************************************************************)
(* The local variables, by their names in the source.  empty_left and      *)
(* empty_right are the temporaries empty_like returns before ->release().  *)
(***************************************************************************)
LocalNames ==
  {"num_repeats", "left_repeated", "right_tiled",
   "left_repeated_columns", "right_tiled_columns",
   "empty_left", "empty_right",
   "empty_left_columns", "empty_right_columns"}

NoLocals == [h \in LocalNames |-> <<>>]

\* Leaving the function, by return or by exception, destroys every local
\* and with it every buffer the local still owns.
Unwind_leak(ls, lv) ==
  lv \ UNION {Owned(ls[h]) : h \in LocalNames \ {"left_repeated", "empty_left_columns"}}
Unwind(ls, lv) == lv \ UNION {Owned(ls[h]) : h \in LocalNames}

\* The buffers that are live before the call: those of the two inputs.
Before == Owned(left) \cup Owned(right)

(***************************************************************************)
(* cross_join as a function of its arguments (no primitive fails).         *)
(***************************************************************************)
cross_join(l, r, m, s) ==
  IF ~columns_expected(l, r)
    THEN [status |-> "logic_error", table |-> <<>>]
  ELSE IF either_empty(l, r)
    THEN [status |-> "ok",
          table  |-> move_back_inserter(empty_like(l, "empty_left"),
                                        empty_like(r, "empty_right")).dst]
  ELSE [status |-> "ok",
        table  |-> move_back_inserter(
                     repeat(l, repeat_count(l, r), repeat_mr(m), "left_repeated"),
                     tile(r, tile_count(l, r), tile_mr(m), "right_tiled")).dst]

(***************************************************************************)
(* One call of detail::cross_join(left, right, mr, stream).                *)
(***************************************************************************)
NoTables == [A |-> <<>>, B |-> <<>>, C |-> <<>>]
NoResult == [status |-> "none", table |-> <<>>]
NoNest == [ab |-> NoResult, ab_c |-> NoResult, bc |-> NoResult, a_bc |-> NoResult]

Init ==
  /\ left \in Tables("left", 0, MaxCols, MaxRows)
  /\ right \in Tables("right", 0, MaxCols, MaxRows)
  /\ mr \in Resources
  /\ stream \in Streams
  /\ pc = "validate"
  /\ locals = NoLocals
  /\ live = Owned(left) \cup Owned(right)
  /\ calls = <<>>
  /\ result = <<>>
  /\ err = "none"
  /\ tbl = NoTables
  /\ nest = NoNest

inputs == <<left, right, mr, stream, tbl, nest>>

Call(op, rsrc, strm) == [op |-> op, mr |-> rsrc, stream |-> strm]

\* An exception leaves the function: the locals are destroyed on the way.
Throw(what) ==
  /\ pc' = "error"
  /\ err' = what
  /\ live' = Unwind(locals, live)
  /\ locals' = NoLocals
  /\ UNCHANGED result

\* A statement that binds the table a primitive returns to a local, or
\* propagates the primitive's failure.
Bind(local, op, tbl_, rsrc, strm, next) ==
  /\ calls' = Append(calls, Call(op, rsrc, strm))
  /\ \E ok \in BOOLEAN :
       IF ok
         THEN /\ locals' = [locals EXCEPT ![local] = tbl_]
              /\ live' = live \cup Owned(tbl_)
              /\ pc' = next
              /\ UNCHANGED <<result, err>>
         ELSE Throw(op)

\* table::release(): the columns leave the table, which owns none afterwards.
Release(from, to, next) ==
  /\ locals' = [locals EXCEPT ![to] = locals[from], ![from] = <<>>]
  /\ pc' = next
  /\ UNCHANGED <<live, calls, result, err>>

\* std::move(src.begin(), src.end(), std::back_inserter(dst))
MoveColumns(dst, src, next) ==
  LET moved == move_back_inserter(locals[dst], locals[src])
  IN /\ locals' = [locals EXCEPT ![dst] = moved.dst, ![src] = moved.src]
     /\ pc' = next
     /\ UNCHANGED <<live, calls, result, err>>

\* return std::make_unique<table>(std::move(columns)): the table takes the
\* columns, the caller takes the table, the locals are destroyed.
ReturnTable(columns) ==
  LET rest == [locals EXCEPT ![columns] = <<>>]
  IN /\ result' = locals[columns]
     /\ live' = Unwind(rest, live)
     /\ locals' = NoLocals
     /\ pc' = "done"
     /\ UNCHANGED <<calls, err>>

\* lines 54-58: the two CUDF_EXPECTS and the choice of path
Validate ==
  /\ pc = "validate"
  /\ IF ~columns_expected(left, right)
       THEN /\ Throw("logic_error")
            /\ UNCHANGED calls
     ELSE /\ pc' = IF either_empty(left, right) THEN "empty_like_left" ELSE "num_repeats"
          /\ UNCHANGED <<locals, live, calls, result, err>>
  /\ UNCHANGED inputs

\* line 59: empty_like(left) ...
EmptyLikeLeft ==
  /\ pc = "empty_like_left"
  /\ Bind("empty_left", "empty_like", empty_like(left, "empty_left"),
          empty_like_mr(mr), empty_like_stream(stream), "release_empty_left")
  /\ UNCHANGED inputs

\* line 59: ... ->release() into empty_left_columns
ReleaseEmptyLeft ==
  /\ pc = "release_empty_left"
  /\ Release("empty_left", "empty_left_columns", "empty_like_right")
  /\ UNCHANGED inputs

\* line 60
EmptyLikeRight ==
  /\ pc = "empty_like_right"
  /\ Bind("empty_right", "empty_like", empty_like(right, "empty_right"),
          empty_like_mr(mr), empty_like_stream(stream), "release_empty_right")
  /\ UNCHANGED inputs

ReleaseEmptyRight ==
  /\ pc = "release_empty_right"
  /\ Release("empty_right", "empty_right_columns", "move_empty")
  /\ UNCHANGED inputs

\* lines 61-63
MoveEmpty ==
  /\ pc = "move_empty"
  /\ MoveColumns("empty_left_columns", "empty_right_columns", "return_empty")
  /\ UNCHANGED inputs

\* line 64
ReturnEmpty ==
  /\ pc = "return_empty"
  /\ ReturnTable("empty_left_columns")
  /\ UNCHANGED inputs

\* line 68: the scalar is a device value; it is given neither mr nor stream
NumRepeats ==
  /\ pc = "num_repeats"
  /\ \E ok \in BOOLEAN :
       IF ok
         THEN LET scalar == <<[type |-> "INT32",
                               data |-> <<<<"num_repeats", 1, repeat_count(left, right)>>>>,
                               buf  |-> <<"num_repeats", 1>>,
                               mr   |-> DefaultResource]>>
              IN /\ locals' = [locals EXCEPT !["num_repeats"] = scalar]
                 /\ live' = live \cup Owned(scalar)
                 /\ pc' = "repeat"
                 /\ UNCHANGED <<result, err>>
         ELSE Throw("numeric_scalar")
  /\ UNCHANGED calls
  /\ UNCHANGED inputs

\* line 69: detail::repeat(left, num_repeats, mr, stream)
Repeat ==
  /\ pc = "repeat"
  /\ Bind("left_repeated", "repeat",
          repeat(left, locals["num_repeats"][1].data[1][3], repeat_mr(mr), "left_repeated"),
          repeat_mr(mr), repeat_stream(stream), "tile")
  /\ UNCHANGED inputs

\* line 72: cudf::tile(right, left.num_rows(), mr)
Tile ==
  /\ pc = "tile"
  /\ Bind("right_tiled", "tile",
          tile(right, tile_count(left, right), tile_mr(mr), "right_tiled"),
          tile_mr(mr), tile_stream(stream), "release_left")
  /\ UNCHANGED inputs

\* line 75
ReleaseLeft ==
  /\ pc = "release_left"
  /\ Release("left_repeated", "left_repeated_columns", "release_right")
  /\ UNCHANGED inputs

\* line 76
ReleaseRight ==
  /\ pc = "release_right"
  /\ Release("right_tiled", "right_tiled_columns", "move_tiled")
  /\ UNCHANGED inputs

\* lines 77-79
MoveTiled ==
  /\ pc = "move_tiled"
  /\ MoveColumns("left_repeated_columns", "right_tiled_columns", "return")
  /\ UNCHANGED inputs

\* line 81
Return ==
  /\ pc = "return"
  /\ ReturnTable("left_repeated_columns")
  /\ UNCHANGED inputs

Next ==
  \/ Validate
  \/ EmptyLikeLeft
  \/ ReleaseEmptyLeft
  \/ EmptyLikeRight
  \/ ReleaseEmptyRight
  \/ MoveEmpty
  \/ ReturnEmpty
  \/ NumRepeats
  \/ Repeat
  \/ Tile
  \/ ReleaseLeft
  \/ ReleaseRight
  \/ MoveTiled
  \/ Return

Spec == Init /\ [][Next]_vars

\* The statement-by-statement call returns what the function computes.
CallMatchesFunction ==
  /\ pc = "done" => /\ cross_join(left, right, mr, stream).status = "ok"
                    /\ result = cross_join(left, right, mr, stream).table
  /\ (pc = "error" /\ err = "logic_error") =>
       cross_join(left, right, mr, stream).status = "logic_error"

(***************************************************************************)
(* The public entry point (lines 85-91): the default stream.               *)
(***************************************************************************)
cudf_cross_join(l, r, m) == cross_join(l, r, m, DefaultStream)

(***************************************************************************)
(* Nested joins of three tables A, B and C, in both groupings.             *)
(***************************************************************************)
InitNest ==
  /\ tbl \in [A : Tables("A", 1, NestMaxCols, NestMaxRows),
              B : Tables("B", 1, NestMaxCols, NestMaxRows),
              C : Tables("C", 1, NestMaxCols, NestMaxRows)]
  /\ nest = NoNest
  /\ left = <<>>
  /\ right = <<>>
  /\ mr = DefaultResource
  /\ stream = DefaultStream
  /\ pc = "idle"
  /\ locals = NoLocals
  /\ live = {}
  /\ calls = <<>>
  /\ result = <<>>
  /\ err = "none"

\* cross_join(A, B)
JoinAB ==
  /\ nest.ab.status = "none"
  /\ nest' = [nest EXCEPT !.ab = cudf_cross_join(tbl.A, tbl.B, mr)]
  /\ UNCHANGED <<tbl, callVars>>

\* cross_join(cross_join(A, B), C)
JoinABthenC ==
  /\ nest.ab.status = "ok"
  /\ nest.ab_c.status = "none"
  /\ nest' = [nest EXCEPT !.ab_c = cudf_cross_join(nest.ab.table, tbl.C, mr)]
  /\ UNCHANGED <<tbl, callVars>>

\* cross_join(B, C)
JoinBC ==
  /\ nest.bc.status = "none"
  /\ nest' = [nest EXCEPT !.bc = cudf_cross_join(tbl.B, tbl.C, mr)]
  /\ UNCHANGED <<tbl, callVars>>

\* cross_join(A, cross_join(B, C))
JoinAthenBC ==
  /\ nest.bc.status = "ok"
  /\ nest.a_bc.status = "none"
  /\ nest' = [nest EXCEPT !.a_bc = cudf_cross_join(tbl.A, nest.bc.table, mr)]
  /\ UNCHANGED <<tbl, callVars>>

NextNest ==
  \/ JoinAB
  \/ JoinABthenC
  \/ JoinBC
  \/ JoinAthenBC

SpecNest == InitNest /\ [][NextNest]_vars

(***************************************************************************)
(* Properties.                                                             *)
(***************************************************************************)
rowsL == num_rows(left)
rowsR == num_rows(right)
colsL == num_columns(left)
colsR == num_columns(right)

\* Row i (0-based) of a table, and the schema of a table.
Row(t, i) == [c \in 1..Len(t) |-> t[c].data[i + 1]]
TypesOf(t) == [c \in 1..Len(t) |-> t[c].type]
HasShape(t, rows, types) ==
  /\ Len(t) = Len(types)
  /\ \A j \in 1..Len(t) : Len(t[j].data) = rows
  /\ TypesOf(t) = types

\* Every owner of columns there is during the call, slot by slot.
ColumnSlots ==
  locals["left_repeated"] \o locals["right_tiled"]
    \o locals["left_repeated_columns"] \o locals["right_tiled_columns"]
    \o locals["empty_left"] \o locals["empty_right"]
    \o locals["empty_left_columns"] \o locals["empty_right_columns"]
    \o result
AllSlots == locals["num_repeats"] \o ColumnSlots
Columns == {i \in DOMAIN ColumnSlots : ColumnSlots[i] # NullColumn}
Owners(b) == {i \in DOMAIN AllSlots : AllSlots[i] # NullColumn /\ AllSlots[i].buf = b}
GeneralPath == colsL >= 1 /\ colsR >= 1 /\ rowsL >= 1 /\ rowsR >= 1
ZeroRowPath == colsL >= 1 /\ colsR >= 1 /\ (rowsL = 0 \/ rowsR = 0)

\* C1: with m, n >= 1, row i of the result is left row i / n followed by
\* right row i % n, for every i in [0, m*n).
RowOrderingLaw ==
  (pc = "done" /\ GeneralPath) =>
    /\ HasShape(result, rowsL * rowsR, TypesOf(left) \o TypesOf(right))
    /\ \A i \in 0..(rowsL * rowsR - 1) :
         Row(result, i) = Row(left, i \div rowsR) \o Row(right, i % rowsR)

RowOrderingWitness ==
  pc = "done" /\ rowsL >= 2 /\ rowsR >= 2 /\ colsL >= 1 /\ colsR >= 1

\* C2: for non-empty inputs the result has m*n rows and p+q columns, typed
\* as the left columns followed by the right columns.
ResultShape ==
  (pc = "done" /\ GeneralPath) =>
    /\ Len(result) = colsL + colsR
    /\ \A j \in 1..Len(result) :
         /\ Len(result[j].data) = rowsL * rowsR
         /\ j <= colsL => result[j].type = left[j].type
         /\ j > colsL => result[j].type = right[j - colsL].type

ResultShapeWitness ==
  /\ pc = "done"
  /\ GeneralPath
  /\ rowsL # rowsR
  /\ left[1].type # right[1].type

\* C3: a table without columns on either side is a logic error, raised
\* before any primitive is invoked and before anything is allocated.
ZeroColumnsFail ==
  /\ (colsL = 0 \/ colsR = 0) =>
       /\ pc \in {"validate", "error"}
       /\ pc = "error" => err = "logic_error"
  /\ err = "logic_error" =>
       /\ calls = <<>>
       /\ live = Before
       /\ locals = NoLocals
       /\ result = <<>>

ZeroColumnsWitness ==
  pc = "error" /\ err = "logic_error" /\ colsL >= 1 /\ rowsL >= 1 /\ colsR = 0

\* C4: with columns on both sides and no rows on one, the call returns a
\* table of 0 rows and p+q columns typed left then right, built from
\* empty_like alone: repeat and tile are never invoked.
ZeroRowDegeneracy ==
  ZeroRowPath =>
    /\ \A i \in DOMAIN calls : calls[i].op = "empty_like"
    /\ locals["num_repeats"] = <<>>
    /\ pc = "error" => err = "empty_like"
    /\ pc = "done" => HasShape(result, 0, TypesOf(left) \o TypesOf(right))

ZeroRowWitness ==
  pc = "done" /\ ZeroRowPath /\ rowsL = 0 /\ rowsR >= 1 /\ Len(calls) = 2

\* C5: when the call has returned, the live allocations are those from
\* before the call plus the buffers of the returned table; when it has
\* failed, exactly those from before the call.
NoLeak ==
  /\ pc = "done" => live = Before \cup Owned(result)
  /\ pc = "error" => live = Before /\ result = <<>>

NoLeakWitness ==
  /\ pc = "error"
  /\ Len(calls) = 2
  /\ calls[1].op = "repeat"
  /\ err = "tile"

\* C6: every unit of device work of the call is enqueued on the caller's
\* stream (empty_like builds zero-length buffers and enqueues nothing).
AllWorkOnCallerStream ==
  \A i \in DOMAIN calls :
    calls[i].op \in {"repeat", "tile"} => calls[i].stream = stream

SingleOwner ==
  /\ \A b \in live \ Before : Cardinality(Owners(b)) = 1
  /\ \A i \in DOMAIN AllSlots :
       AllSlots[i] # NullColumn => AllSlots[i].buf \in live \ Before
  /\ pc \in {"release_right", "move_tiled", "return"} =>
       Owned(locals["left_repeated"]) = {}
  /\ pc \in {"move_tiled", "return"} => Owned(locals["right_tiled"]) = {}
  /\ pc \in {"empty_like_right", "release_empty_right", "move_empty", "return_empty"} =>
       Owned(locals["empty_left"]) = {}
  /\ pc \in {"move_empty", "return_empty"} => Owned(locals["empty_right"]) = {}
  /\ pc = "return" =>
       /\ Owned(locals["right_tiled_columns"]) = {}
       /\ Cardinality(Owned(locals["left_repeated_columns"])) = colsL + colsR
  /\ pc = "return_empty" =>
       /\ Owned(locals["empty_right_columns"]) = {}
       /\ Cardinality(Owned(locals["empty_left_columns"])) = colsL + colsR
  /\ pc = "done" =>
       /\ Len(result) = colsL + colsR
       /\ Cardinality(Owned(result)) = colsL + colsR
       /\ Owned(result) = live \ Before

SingleOwnerWitness ==
  /\ pc = "return"
  /\ Len(locals["right_tiled_columns"]) >= 1
  /\ locals["right_tiled_columns"][1] = NullColumn
  /\ Len(locals["left_repeated_columns"]) >= 2

\* C9: for A, B, C with at least one column each, both groupings of the
\* nested join succeed with rows(A)*rows(B)*rows(C) rows and the types
\* of A, then B, then C.
NestShape(r) ==
  r.status # "none" =>
    /\ r.status = "ok"
    /\ HasShape(r.table,
                num_rows(tbl.A) * num_rows(tbl.B) * num_rows(tbl.C),
                TypesOf(tbl.A) \o TypesOf(tbl.B) \o TypesOf(tbl.C))

ShapeAssociative ==
  /\ nest.ab.status \in {"none", "ok"}
  /\ nest.bc.status \in {"none", "ok"}
  /\ NestShape(nest.ab_c)
  /\ NestShape(nest.a_bc)

ShapeAssociativeWitness ==
  /\ nest.ab_c.status = "ok"
  /\ nest.a_bc.status = "ok"
  /\ num_rows(tbl.A) = 2
  /\ num_rows(tbl.B) = 0
  /\ TypesOf(tbl.A) # TypesOf(tbl.C)

====
